---- MODULE Spec2Model ----
(***************************************************************************)
(* Model of versionplot.py: load_counts builds the version -> time series  *)
(* mapping from a fleet score workbook, plot_data derives the x-axis range *)
(* of the three charts from it.                                            *)
(*                                                                         *)
(* A string is a sequence of one-character strings, so that indexing       *)
(* (version[0]), strptime and the semantic-version syntax are computed     *)
(* character by character.  A date is <<year, month, day>>.  A time series *)
(* (the (K, 2) numpy array) is a sequence of [date, count] rows.  The dict *)
(* oslist is a sequence of [key, value] items in insertion order.          *)
(***************************************************************************)
EXTENDS Integers, Sequences, FiniteSets, TLC

\* ------------------------------------------------------------------ bounds
MaxSheets == 2    \* date sheets of a workbook (sheets after the first three)
MaxCatalog == 2   \* rows of the OSVer sheet after its header row
MaxRows == 2      \* daily rows read over the whole workbook

\* ------------------------------------------------------------------ inputs
\* Names a date sheet may carry.  "2020011" is read by strptime as
\* 2020-01-01, the date of "20200101"; "20200230" is no date.
SheetNameChoices ==
  { <<"2","0","2","0","0","1","0","1">>,
    <<"2","0","2","0","0","1","0","2">>,
    <<"2","0","2","0","0","1","1">>,
    <<"2","0","2","0","0","2","3","0">> }

\* Version strings a catalog row or a daily row may carry.
VersionChoices ==
  { <<"2",".","1","2",".","0">>,
    <<"2",".","1","1",".","9">>,
    <<"1",".","8",".","0">>,
    <<"3",".","0",".","0">>,
    <<"2",".","1","2">>,
    <<>>,
    <<"1",".","x">> }

\* Values of a daily row's count column.
CountChoices == {2}

\* ------------------------------------------------------------------ text
DigitChars == {"0","1","2","3","4","5","6","7","8","9"}
NonZeroChars == DigitChars \ {"0"}
AlnumChars == DigitChars \cup {"a","b","c","e","l","m","n","o","p","r","x","-"}

DigitVal(c) ==
  CASE c = "0" -> 0 [] c = "1" -> 1 [] c = "2" -> 2 [] c = "3" -> 3
    [] c = "4" -> 4 [] c = "5" -> 5 [] c = "6" -> 6 [] c = "7" -> 7
    [] c = "8" -> 8 [] c = "9" -> 9

RECURSIVE ToInt(_)
ToInt(s) ==
  IF s = <<>> THEN 0
  ELSE 10 * ToInt(SubSeq(s, 1, Len(s) - 1)) + DigitVal(s[Len(s)])

Range(s) == { s[k] : k \in 1..Len(s) }

RECURSIVE SumSeq(_)
SumSeq(s) == IF s = <<>> THEN 0 ELSE s[1] + SumSeq(Tail(s))

\* ------------------------------------------------------------------ get_date
\* datetime.strptime(datestring, "%Y%m%d"): the format's regular expression
\* (\d\d\d\d)(1[0-2]|0[1-9]|[1-9])(3[01]|[12]\d|0[1-9]|[1-9]) is matched at the
\* start of the string, alternatives tried left to right; text left over after
\* the match and a day the month does not have are ValueErrors.
YearMatch(s) == Len(s) >= 4 /\ \A k \in 1..4 : s[k] \in DigitChars

TwoDigitMonth(s) ==
  /\ Len(s) >= 6
  /\ \/ s[5] = "1" /\ s[6] \in {"0","1","2"}
     \/ s[5] = "0" /\ s[6] \in NonZeroChars

OneDigitMonth(s) == Len(s) >= 5 /\ s[5] \in NonZeroChars

TwoDigitDay(s, p) ==
  /\ Len(s) >= p + 1
  /\ \/ s[p] = "3" /\ s[p + 1] \in {"0","1"}
     \/ s[p] \in {"1","2"} /\ s[p + 1] \in DigitChars
     \/ s[p] = "0" /\ s[p + 1] \in NonZeroChars

OneDigitDay(s, p) == Len(s) >= p /\ s[p] \in NonZeroChars

\* <<length of the month field, length of the day field>>, <<0, 0>>: no match
FormatMatch(s) ==
  IF ~YearMatch(s) THEN <<0, 0>>
  ELSE IF TwoDigitMonth(s) /\ TwoDigitDay(s, 7) THEN <<2, 2>>
  ELSE IF TwoDigitMonth(s) /\ OneDigitDay(s, 7) THEN <<2, 1>>
  ELSE IF OneDigitMonth(s) /\ TwoDigitDay(s, 6) THEN <<1, 2>>
  ELSE IF OneDigitMonth(s) /\ OneDigitDay(s, 6) THEN <<1, 1>>
  ELSE <<0, 0>>

IsLeap(y) == (y % 4 = 0 /\ y % 100 # 0) \/ y % 400 = 0

DaysInMonth(y, m) ==
  IF m = 2 THEN (IF IsLeap(y) THEN 29 ELSE 28)
  ELSE IF m \in {4, 6, 9, 11} THEN 30 ELSE 31

\* [ok |-> TRUE, date |-> <<y, m, d>>], or [ok |-> FALSE] for the ValueError
get_date(datestring) ==
  LET f == FormatMatch(datestring)
      y == ToInt(SubSeq(datestring, 1, 4))
      m == ToInt(SubSeq(datestring, 5, 4 + f[1]))
      d == ToInt(SubSeq(datestring, 5 + f[1], 4 + f[1] + f[2]))
  IN  IF f = <<0, 0>> THEN [ok |-> FALSE]
      ELSE IF Len(datestring) # 4 + f[1] + f[2] THEN [ok |-> FALSE]
      ELSE IF y < 1 \/ d > DaysInMonth(y, m) THEN [ok |-> FALSE]
      ELSE [ok |-> TRUE, date |-> <<y, m, d>>]

\* ------------------------------------------------------------------ semver
\* MC_VERSION with the boundary version left out
MC_VERSION_Exclusive == <<">","2",".","1","2",".","0">>

\* semver.match(version, MC_VERSION) of the semver package: both version
\* strings are parsed (ValueError when one is no semantic version), compared
\* by major, minor, patch and then pre-release, and the comparison's sign is
\* looked up under the expression's operator.
MC_VERSION == <<">","=","2",".","1","2",".","0">>

\* position of the first occurrence of character c in s, 0 when there is none
FirstIndex(s, c) ==
  IF \E k \in 1..Len(s) : s[k] = c
  THEN CHOOSE k \in 1..Len(s) : s[k] = c /\ \A j \in 1..(k - 1) : s[j] # c
  ELSE 0

RECURSIVE Split(_, _)
Split(s, c) ==
  LET k == FirstIndex(s, c)
  IN  IF k = 0 THEN <<s>>
      ELSE <<SubSeq(s, 1, k - 1)>> \o Split(SubSeq(s, k + 1, Len(s)), c)

\* 0|[1-9]\d*
NumericField(f) ==
  /\ f # <<>>
  /\ \A k \in 1..Len(f) : f[k] \in DigitChars
  /\ (Len(f) > 1 => f[1] # "0")

\* an identifier of the pre-release part
PrereleaseField(f) == f # <<>> /\ \A k \in 1..Len(f) : f[k] \in AlnumChars

\* [ok |-> TRUE, major, minor, patch, prerelease], or [ok |-> FALSE] for the
\* ValueError; prerelease is <<>> when the version has none.  (The version
\* strings of the inputs hold no "+", so build metadata is not modelled.)
parse(version) ==
  LET dash == FirstIndex(version, "-")
      core == IF dash = 0 THEN version ELSE SubSeq(version, 1, dash - 1)
      pre  == IF dash = 0 THEN <<>> ELSE SubSeq(version, dash + 1, Len(version))
      fields == Split(core, ".")
      prefields == Split(pre, ".")
  IN  IF Len(fields) # 3 THEN [ok |-> FALSE]
      ELSE IF \E k \in 1..3 : ~NumericField(fields[k]) THEN [ok |-> FALSE]
      ELSE IF dash # 0 /\ \E k \in 1..Len(prefields) : ~PrereleaseField(prefields[k])
        THEN [ok |-> FALSE]
      ELSE [ok |-> TRUE, major |-> ToInt(fields[1]), minor |-> ToInt(fields[2]),
            patch |-> ToInt(fields[3]), prerelease |-> pre]

cmp(a, b) == IF a < b THEN -1 ELSE IF a > b THEN 1 ELSE 0

\* ASCII order of the characters a pre-release may hold
CharOrder == <<"-","0","1","2","3","4","5","6","7","8","9",
               "a","b","c","e","l","m","n","o","p","r","x">>

RECURSIVE StrCmp(_, _)
StrCmp(s, t) ==
  IF s = <<>> /\ t = <<>> THEN 0
  ELSE IF s = <<>> THEN -1
  ELSE IF t = <<>> THEN 1
  ELSE IF s[1] # t[1]
    THEN cmp(FirstIndex(CharOrder, s[1]), FirstIndex(CharOrder, t[1]))
  ELSE StrCmp(Tail(s), Tail(t))

\* compare(ver1, ver2) on two parsed versions: -1, 0 or 1
compare(v1, v2) ==
  IF v1.major # v2.major THEN cmp(v1.major, v2.major)
  ELSE IF v1.minor # v2.minor THEN cmp(v1.minor, v2.minor)
  ELSE IF v1.patch # v2.patch THEN cmp(v1.patch, v2.patch)
  ELSE IF v1.prerelease = <<>> /\ v2.prerelease = <<>> THEN 0
  ELSE IF v1.prerelease = <<>> THEN 1
  ELSE IF v2.prerelease = <<>> THEN -1
  ELSE StrCmp(v1.prerelease, v2.prerelease)

\* match with a version that does not parse taken as not matching
match_Defaulting(version, match_expr) ==
  LET v1 == parse(version)
      v2 == parse(SubSeq(match_expr, 3, Len(match_expr)))
  IN  IF ~v1.ok THEN [ok |-> TRUE, value |-> FALSE]
      ELSE [ok |-> TRUE, value |-> compare(v1, v2) \in {0, 1}]

\* [ok |-> TRUE, value |-> BOOLEAN], or [ok |-> FALSE] for the ValueError
match(version, match_expr) ==
  LET two == SubSeq(match_expr, 1, 2)
      long == two \in {<<">","=">>, <<"<","=">>, <<"=","=">>, <<"!","=">>}
      short == ~long /\ Len(match_expr) >= 1 /\ match_expr[1] \in {">", "<"}
      prefix == IF long THEN two ELSE <<match_expr[1]>>
      match_version == SubSeq(match_expr, Len(prefix) + 1, Len(match_expr))
      possibilities ==
        CASE prefix = <<">">> -> {1}
          [] prefix = <<"<">> -> {-1}
          [] prefix = <<"=","=">> -> {0}
          [] prefix = <<"!","=">> -> {-1, 1}
          [] prefix = <<">","=">> -> {0, 1}
          [] prefix = <<"<","=">> -> {-1, 0}
      v1 == parse(version)
      v2 == parse(match_version)
  IN  IF ~long /\ ~short THEN [ok |-> FALSE]
      ELSE IF ~v1.ok \/ ~v2.ok THEN [ok |-> FALSE]
      ELSE [ok |-> TRUE, value |-> compare(v1, v2) \in possibilities]

\* ------------------------------------------------------------------ dict, array
HasKey(d, k) == \E n \in 1..Len(d) : d[n].key = k

KeyIndex(d, k) == CHOOSE n \in 1..Len(d) : d[n].key = k

\* DictSet that adds an item whether or not the key is known
DictSet_Append(d, k, v) == Append(d, [key |-> k, value |-> v])

\* d[k] = v: a new key goes last, a known key keeps its place
DictSet(d, k, v) ==
  IF HasKey(d, k)
  THEN [d EXCEPT ![KeyIndex(d, k)] = [key |-> k, value |-> v]]
  ELSE Append(d, [key |-> k, value |-> v])

DictGet(d, k) == d[KeyIndex(d, k)].value

Keys(d) == { d[n].key : n \in 1..Len(d) }

\* numpy.where(series == daily_date)[0][0]: the first row holding the date,
\* 0 when no row does (the IndexError of [0][0])
DayIndex(series, date) ==
  IF \E n \in 1..Len(series) : series[n].date = date
  THEN CHOOSE n \in 1..Len(series) :
         series[n].date = date /\ \A j \in 1..(n - 1) : series[j].date # date
  ELSE 0

\* Up that leaves out, without an exception, a key the mapping does not hold
Up_SkipUnknown(d, k, date, count) ==
  IF ~HasKey(d, k) THEN [exc |-> "none", oslist |-> d]
  ELSE LET series == DictGet(d, k)
           dayindex == DayIndex(series, date)
       IN  IF dayindex = 0 THEN [exc |-> "IndexError", oslist |-> d]
           ELSE [exc |-> "none",
                 oslist |-> DictSet(d, k,
                   [series EXCEPT ![dayindex].count = @ + count])]

\* Up that assigns the count instead of adding it
Up_Overwrite(d, k, date, count) ==
  IF ~HasKey(d, k) THEN [exc |-> "KeyError", oslist |-> d]
  ELSE LET series == DictGet(d, k)
           dayindex == DayIndex(series, date)
       IN  IF dayindex = 0 THEN [exc |-> "IndexError", oslist |-> d]
           ELSE [exc |-> "none",
                 oslist |-> DictSet(d, k,
                   [series EXCEPT ![dayindex].count = count])]

\* dayindex = numpy.where(oslist[key] == daily_date)[0][0]
\* oslist[key][dayindex, 1] += count
Up(d, k, date, count) ==
  IF ~HasKey(d, k) THEN [exc |-> "KeyError", oslist |-> d]
  ELSE LET series == DictGet(d, k)
           dayindex == DayIndex(series, date)
       IN  IF dayindex = 0 THEN [exc |-> "IndexError", oslist |-> d]
           ELSE [exc |-> "none",
                 oslist |-> DictSet(d, k,
                   [series EXCEPT ![dayindex].count = @ + count])]

\* ------------------------------------------------------------------ load_counts
extra_versions ==
  << <<"1",".","x">>, <<"2",".","x">>,
     <<"m","c","-","c","a","p","a","b","l","e">>,
     <<"n","o","n","-","m","c","-","c","a","p","a","b","l","e">> >>

\* special_version testing for "1" instead of "2"
special_version_OneFirst(version) ==
  IF version[1] = "1" THEN extra_versions[1] ELSE extra_versions[2]

\* special_version keeping a version that starts with neither "1" nor "2"
special_version_Own(version) ==
  IF version[1] = "2" THEN extra_versions[2]
  ELSE IF version[1] = "1" THEN extra_versions[1]
  ELSE version

\* lines 70-73, for a version string with a first character
special_version(version) ==
  IF version[1] = "2" THEN extra_versions[2] ELSE extra_versions[1]

\* mc_capability with the wrong key for a version that does not match
mc_capability_WrongKey(matched) ==
  IF matched THEN extra_versions[3] ELSE extra_versions[1]

\* lines 76-79, from the value semver.match returned
mc_capability(matched) ==
  IF matched THEN extra_versions[3] ELSE extra_versions[4]

\* Lines 64-81 for one daily row: the mapping as the row leaves it, and the
\* exception that ended it ("none": the row was added to its three series).
ProcessRow(d, version, count, date) ==
  LET u1 == Up(d, version, date, count)
  IN  IF u1.exc # "none" THEN [oslist |-> d, type |-> u1.exc, line |-> 67]
      ELSE IF version = <<>>
        THEN [oslist |-> u1.oslist, type |-> "IndexError", line |-> 70]
      ELSE
        LET u2 == Up(u1.oslist, special_version(version), date, count)
        IN  IF u2.exc # "none"
              THEN [oslist |-> u1.oslist, type |-> u2.exc, line |-> 74]
            ELSE
              LET m == match(version, MC_VERSION)
              IN  IF ~m.ok
                    THEN [oslist |-> u2.oslist, type |-> "ValueError", line |-> 76]
                  ELSE
                    LET u3 == Up(u2.oslist, mc_capability(m.value), date, count)
                    IN  [oslist |-> u3.oslist, type |-> u3.exc,
                         line |-> IF u3.exc = "none" THEN 0 ELSE 80]

RECURSIVE SetAll(_, _, _)
\* for ver in keys: d[ver] = v
SetAll(d, keys, v) ==
  IF keys = <<>> THEN d ELSE SetAll(DictSet(d, Head(keys), v), Tail(keys), v)

VARIABLES
  sheet_names,  \* workbook.sheet_names()[3:], the names of the date sheets
  ossheet,      \* the OSVer rows read so far (column 0, after the header)
  daily_rows,   \* per date sheet, the rows read so far: [version, count]
  pc,           \* "dates", "catalog", "daily", "rows", "returned", "plotted", "raised"
  idx,          \* position of the running loop in sheet_names
  dates,        \* the template series of line 41
  oslist,       \* the mapping
  daily_date,   \* line 62
  raised,       \* the exception that ended the run: [type, line]
  XLIM          \* line 154

vars == <<sheet_names, ossheet, daily_rows, pc, idx, dates, oslist,
          daily_date, raised, XLIM>>

NoException == [type |-> "none", line |-> 0]

\* sequences of pairwise different names: a workbook's sheet names are unique
NameLists ==
  { s \in UNION { [1..n -> SheetNameChoices] : n \in 0..MaxSheets } :
      \A a, b \in 1..Len(s) : a # b => s[a] # s[b] }

TotalRows == SumSeq([k \in 1..Len(daily_rows) |-> Len(daily_rows[k])])

Init ==
  /\ sheet_names \in NameLists
  /\ ossheet = <<>>
  /\ daily_rows = [k \in 1..Len(sheet_names) |-> <<>>]
  /\ pc = "dates"
  /\ idx = 1
  /\ dates = <<>>
  /\ oslist = <<>>
  /\ daily_date = <<>>
  /\ raised = NoException
  /\ XLIM = <<>>

\* AppendDate that passes over a name that is no date
AppendDate_Skip ==
  /\ pc = "dates"
  /\ idx <= Len(sheet_names)
  /\ LET g == get_date(sheet_names[idx])
     IN  dates' = IF g.ok THEN Append(dates, [date |-> g.date, count |-> 0])
                  ELSE dates
  /\ idx' = idx + 1
  /\ UNCHANGED <<sheet_names, ossheet, daily_rows, pc, oslist, daily_date,
                 raised, XLIM>>

\* lines 43-46, one iteration
AppendDate ==
  /\ pc = "dates"
  /\ idx <= Len(sheet_names)
  /\ LET g == get_date(sheet_names[idx])
     IN  IF g.ok
         THEN /\ dates' = Append(dates, [date |-> g.date, count |-> 0])
              /\ idx' = idx + 1
              /\ UNCHANGED <<pc, raised>>
         ELSE /\ raised' = [type |-> "ValueError", line |-> 45]
              /\ pc' = "raised"
              /\ UNCHANGED <<dates, idx>>
  /\ UNCHANGED <<sheet_names, ossheet, daily_rows, oslist, daily_date, XLIM>>

\* lines 49-50, after the last name
OpenCatalog ==
  /\ pc = "dates"
  /\ idx > Len(sheet_names)
  /\ pc' = "catalog"
  /\ UNCHANGED <<sheet_names, ossheet, daily_rows, idx, dates, oslist,
                 daily_date, raised, XLIM>>

\* lines 51-53, one iteration
CatalogRow ==
  /\ pc = "catalog"
  /\ Len(ossheet) < MaxCatalog
  /\ \E version \in VersionChoices :
       /\ ossheet' = Append(ossheet, version)
       /\ oslist' = DictSet(oslist, version, dates)
  /\ UNCHANGED <<sheet_names, daily_rows, pc, idx, dates, daily_date, raised, XLIM>>

\* lines 55-57, after the last catalog row
ExtraVersions ==
  /\ pc = "catalog"
  /\ oslist' = SetAll(oslist, extra_versions, dates)
  /\ pc' = "daily"
  /\ idx' = 1
  /\ UNCHANGED <<sheet_names, ossheet, daily_rows, dates, daily_date, raised, XLIM>>

\* lines 60-62
OpenDaily ==
  /\ pc = "daily"
  /\ idx <= Len(sheet_names)
  /\ LET g == get_date(sheet_names[idx])
     IN  IF g.ok
         THEN /\ daily_date' = g.date
              /\ pc' = "rows"
              /\ UNCHANGED raised
         ELSE /\ raised' = [type |-> "ValueError", line |-> 62]
              /\ pc' = "raised"
              /\ UNCHANGED daily_date
  /\ UNCHANGED <<sheet_names, ossheet, daily_rows, idx, dates, oslist, XLIM>>

\* lines 63-81, one iteration
DailyRow ==
  /\ pc = "rows"
  /\ TotalRows < MaxRows
  /\ \E version \in VersionChoices, count \in CountChoices :
       LET r == ProcessRow(oslist, version, count, daily_date)
       IN  /\ daily_rows' = [daily_rows EXCEPT ![idx] =
                               Append(@, [version |-> version, count |-> count])]
           /\ oslist' = r.oslist
           /\ IF r.type = "none"
              THEN UNCHANGED <<pc, raised>>
              ELSE /\ raised' = [type |-> r.type, line |-> r.line]
                   /\ pc' = "raised"
  /\ UNCHANGED <<sheet_names, ossheet, idx, dates, daily_date, XLIM>>

\* line 63, after the sheet's last row
CloseDaily ==
  /\ pc = "rows"
  /\ idx' = idx + 1
  /\ pc' = "daily"
  /\ UNCHANGED <<sheet_names, ossheet, daily_rows, dates, oslist, daily_date,
                 raised, XLIM>>

\* line 82
Return ==
  /\ pc = "daily"
  /\ idx > Len(sheet_names)
  /\ pc' = "returned"
  /\ UNCHANGED <<sheet_names, ossheet, daily_rows, idx, dates, oslist,
                 daily_date, raised, XLIM>>

\* ------------------------------------------------------------------ plot_data
\* lines 128-154: counts is the series of the last key of the loop
PlotRange(d) ==
  LET counts == d[Len(d)].value
  IN  IF counts = <<>> THEN [exc |-> "IndexError", xlim |-> <<>>]
      ELSE [exc |-> "none",
            xlim |-> <<counts[1].date, counts[Len(counts)].date>>]

\* lines 181 and 199: the mapping load_counts returned goes to plot_data
PlotData ==
  /\ pc = "returned"
  /\ LET p == PlotRange(oslist)
     IN  IF p.exc = "none"
         THEN /\ XLIM' = p.xlim
              /\ pc' = "plotted"
              /\ UNCHANGED raised
         ELSE /\ raised' = [type |-> p.exc, line |-> 154]
              /\ pc' = "raised"
              /\ UNCHANGED XLIM
  /\ UNCHANGED <<sheet_names, ossheet, daily_rows, idx, dates, oslist, daily_date>>

Next ==
  \/ AppendDate
  \/ OpenCatalog
  \/ CatalogRow
  \/ ExtraVersions
  \/ OpenDaily
  \/ DailyRow
  \/ CloseDaily
  \/ Return
  \/ PlotData

Spec == Init /\ [][Next]_vars

\* ------------------------------------------------------------------ vocabulary
K == Len(sheet_names)

MajorOne == extra_versions[1]
MajorTwo == extra_versions[2]
McCapable == extra_versions[3]
NonMcCapable == extra_versions[4]
DerivedKeys == Range(extra_versions)

\* the error kinds of the specification, as the exceptions the code raises
FormatError == raised.type = "ValueError" /\ raised.line \in {45, 62}
LookupError == raised.type \in {"KeyError", "IndexError"}
ParseError == raised.type = "ValueError" /\ raised.line = 76

\* load_counts returned its mapping (and plot_data may have run on it)
Returned == pc \in {"returned", "plotted"} \/ raised.line = 154

\* every daily row read so far went through all of lines 64-81
Aggregating == pc \in {"daily", "rows"} \/ Returned

\* the names among SheetNameChoices that are dates, and their dates
DateNames == { name \in SheetNameChoices : get_date(name).ok }
DateOf == [name \in DateNames |-> get_date(name).date]

\* the version strings among VersionChoices that are semantic versions
SemanticVersions == { v \in VersionChoices : parse(v).ok }

\* the date of date sheet s (every name is a date once the first loop is over)
SheetDate(s) == DateOf[sheet_names[s]]

\* s is the first date sheet bearing its date
FirstOfDate(s) == \A q \in 1..(s - 1) : SheetDate(q) # SheetDate(s)

Cell(k, s) == DictGet(oslist, k)[s].count

\* sum of the count column over the rows n of sheet t that Sel selects
SheetSum(t, Sel(_, _)) ==
  SumSeq([n \in 1..Len(daily_rows[t]) |->
            IF Sel(t, n) THEN daily_rows[t][n].count ELSE 0])

\* the same sum over every sheet whose date is that of sheet s
DateSum(s, Sel(_, _)) ==
  SumSeq([t \in 1..K |->
            IF SheetDate(t) = SheetDate(s) THEN SheetSum(t, Sel) ELSE 0])

\* where the code puts that sum: in the first entry bearing the date
Entry(s, Sel(_, _)) == IF FirstOfDate(s) THEN DateSum(s, Sel) ELSE 0

RowVersion(t, n) == daily_rows[t][n].version

\* row n of sheet t is the row the running exception was raised in
FailingRow(t, n) ==
  /\ pc = "raised"
  /\ raised.line \in {67, 70, 74, 76, 80}
  /\ t = idx
  /\ n = Len(daily_rows[t])

\* ------------------------------------------------------------------ claims
\* C1 as stated: a returned mapping has exactly V+4 keys, V the number of
\* OSVer rows after the header, and every series has K entries.
C1_AsStated ==
  Returned =>
    /\ Len(oslist) = Len(ossheet) + 4
    /\ \A n \in 1..Len(oslist) : Len(oslist[n].value) = K

\* C1 amended: a returned mapping has one key per distinct string among the
\* catalog rows and the four derived keys (V+4 only when the catalog rows are
\* pairwise different and none is a derived key), and every series has K entries.
C1_KeyCount ==
  Returned =>
    /\ Len(oslist) = Cardinality(Range(ossheet) \cup DerivedKeys)
    /\ Cardinality(Keys(oslist)) = Len(oslist)
    /\ \A n \in 1..Len(oslist) : Len(oslist[n].value) = K

C1_Witness ==
  /\ pc = "returned"
  /\ K = 2
  /\ Len(ossheet) = 2
  /\ ossheet[1] = ossheet[2]
  /\ Len(oslist) = 5

\* C2 as stated: every daily row whose version is absent from the catalog ends
\* load_counts with a LookupError, derived category keys included.
C2_AsStated ==
  \A t \in 1..K : \A n \in 1..Len(daily_rows[t]) :
    RowVersion(t, n) \notin Range(ossheet) => FailingRow(t, n) /\ LookupError

\* C2 amended: a daily row whose version is absent from the catalog ends
\* load_counts and no mapping is returned; the exception is a LookupError (the
\* KeyError of line 67) unless the version is one of the four derived keys,
\* which the mapping holds: then it is the ParseError of line 76.
C2_AbsentVersion ==
  \A t \in 1..K : \A n \in 1..Len(daily_rows[t]) :
    RowVersion(t, n) \notin Range(ossheet) =>
      /\ FailingRow(t, n)
      /\ ~Returned
      /\ IF RowVersion(t, n) \in DerivedKeys
         THEN ParseError
         ELSE LookupError /\ raised = [type |-> "KeyError", line |-> 67]

C2_Witness ==
  /\ pc = "raised"
  /\ raised.type = "KeyError"
  /\ idx = 2
  /\ Len(daily_rows[1]) = 1
  /\ Len(daily_rows[2]) = 1
  /\ RowVersion(2, 1) = <<"2",".","1","1",".","9">>
  /\ RowVersion(2, 1) \notin Range(ossheet)

\* the rows other than row n of sheet t
OtherThan(t, n, a, b) == <<a, b>> # <<t, n>>

StartsWith(t, n, c) == RowVersion(t, n) # <<>> /\ RowVersion(t, n)[1] = c

\* C4 as stated: a row counts under 1.x when its version starts with "1" and
\* under 2.x otherwise.
C4_AsStated ==
  Aggregating =>
    \A s \in 1..K :
      /\ Cell(MajorOne, s) = Entry(s, LAMBDA t, n : StartsWith(t, n, "1"))
      /\ Cell(MajorTwo, s) = Entry(s, LAMBDA t, n : ~StartsWith(t, n, "1"))

\* C4 amended: a row counts under 2.x when its version starts with "2" and
\* under 1.x otherwise (for every first character other than "2", "3" or a
\* later major version included).
C4_MajorKey ==
  Aggregating =>
    \A s \in 1..K :
      /\ Cell(MajorTwo, s) = Entry(s, LAMBDA t, n : StartsWith(t, n, "2"))
      /\ Cell(MajorOne, s) = Entry(s, LAMBDA t, n : ~StartsWith(t, n, "2"))

C4_Witness ==
  /\ pc = "returned"
  /\ K = 1
  /\ Len(daily_rows[1]) = 2
  /\ RowVersion(1, 1) = <<"3",".","0",".","0">>
  /\ RowVersion(1, 2) = <<"2",".","1","1",".","9">>
  /\ Cell(MajorOne, 1) = 2
  /\ Cell(MajorTwo, 1) = 2

\* sum, at entry s, over the keys of the mapping that are no derived key
ExactSum(s) ==
  SumSeq([n \in 1..Len(oslist) |->
            IF oslist[n].key \in DerivedKeys THEN 0 ELSE oslist[n].value[s].count])

AtLeast_2_12_0(version) ==
  LET v == parse(version)
  IN  /\ v.ok
      /\ \/ v.major > 2
         \/ v.major = 2 /\ v.minor > 12
         \/ v.major = 2 /\ v.minor = 12 /\ v.prerelease = <<>>

McVersions == { v \in VersionChoices : AtLeast_2_12_0(v) }

McRow(t, n) == RowVersion(t, n) \in McVersions
NonMcRow(t, n) == RowVersion(t, n) \notin McVersions

\* C7: a row counts under mc-capable exactly when its version is at least
\* 2.12.0 in semantic-version precedence and under non-mc-capable otherwise,
\* so under exactly one of the two: 2.12.0 is mc-capable, 2.11.9 and 1.8.0
\* are not.
C7_Capability ==
  Aggregating =>
    /\ \A s \in 1..K :
         /\ Cell(McCapable, s) = Entry(s, McRow)
         /\ Cell(NonMcCapable, s) = Entry(s, NonMcRow)
    /\ \A t \in 1..K : \A n \in 1..Len(daily_rows[t]) :
         /\ RowVersion(t, n) = <<"2",".","1","2",".","0">> => McRow(t, n)
         /\ RowVersion(t, n) \in { <<"2",".","1","1",".","9">>,
                                   <<"1",".","8",".","0">> } => NonMcRow(t, n)

C7_Witness ==
  /\ pc = "returned"
  /\ K = 1
  /\ Len(daily_rows[1]) = 2
  /\ RowVersion(1, 1) = <<"2",".","1","2",".","0">>
  /\ RowVersion(1, 2) = <<"2",".","1","1",".","9">>
  /\ Cell(McCapable, 1) = 2
  /\ Cell(NonMcCapable, 1) = 2

\* C8: when a date sheet's name is no date, whatever its position, load_counts
\* ends with a FormatError in the first loop: no catalog row and no daily row
\* has been read and no key is in the mapping.
C8_FormatErrorFirst ==
  (\E s \in 1..K : sheet_names[s] \notin DateNames) =>
    /\ pc \in {"dates", "raised"}
    /\ pc = "raised" => FormatError /\ raised.line = 45
    /\ ossheet = <<>>
    /\ TotalRows = 0
    /\ oslist = <<>>

C8_Witness ==
  /\ pc = "raised"
  /\ FormatError
  /\ K = 2
  /\ idx = 2
  /\ sheet_names[1] \in DateNames
  /\ sheet_names[2] \notin DateNames

Ordinal(date) == date[1] * 10000 + date[2] * 100 + date[3]

\* C9: the x-axis range is (minimum date, maximum date) of the last-processed
\* series, for every order of the date sheets.
C9_AsStated ==
  pc = "plotted" =>
    LET counts == oslist[Len(oslist)].value
    IN  /\ \A n \in 1..Len(counts) : Ordinal(XLIM[1]) <= Ordinal(counts[n].date)
        /\ \A n \in 1..Len(counts) : Ordinal(counts[n].date) <= Ordinal(XLIM[2])
        /\ \E n \in 1..Len(counts) : counts[n].date = XLIM[1]
        /\ \E n \in 1..Len(counts) : counts[n].date = XLIM[2]

\* C10 as stated: in a returned mapping every series lists the sheets' dates
\* in sheet order, and the entry of catalog version v at sheet s holds the sum
\* of the counts of the rows of s whose version is v.
C10_AsStated ==
  Returned =>
    /\ \A n \in 1..Len(oslist) : \A s \in 1..K :
         oslist[n].value[s].date = SheetDate(s)
    /\ \A v \in Range(ossheet) : \A s \in 1..K :
         Cell(v, s) = SheetSum(s, LAMBDA t, n : RowVersion(t, n) = v)

\* C10 amended: in a returned mapping every series lists the sheets' dates in
\* sheet order, and for every catalog version v that is no derived key the
\* entry at sheet s holds, when s is the first sheet bearing its date, the sum
\* of the counts of the rows with version v of every sheet bearing that date,
\* and zero when an earlier sheet bears the same date (the statement as made
\* when the sheets' dates are pairwise different).
C10_Counts ==
  Returned =>
    /\ \A n \in 1..Len(oslist) : \A s \in 1..K :
         oslist[n].value[s].date = SheetDate(s)
    /\ \A v \in Range(ossheet) \ DerivedKeys : \A s \in 1..K :
         Cell(v, s) = Entry(s, LAMBDA t, n : RowVersion(t, n) = v)

C10_Witness ==
  /\ pc = "returned"
  /\ K = 2
  /\ SheetDate(1) = SheetDate(2)
  /\ Len(daily_rows[1]) = 1
  /\ Len(daily_rows[2]) = 1
  /\ RowVersion(1, 1) = RowVersion(2, 1)
  /\ Cell(RowVersion(1, 1), 1) = 4
  /\ Cell(RowVersion(1, 1), 2) = 0

====
